---------------------------- MODULE Spec2Model ----------------------------
(***************************************************************************)
(* Model of the activity orchestrator of phaser-multi-scene-lib            *)
(* (src/src/game/BaseGame.ts) together with the part of the activity base  *)
(* class it drives (BaseScene.create, src/unnamed/part_000).                *)
(*                                                                         *)
(* Everything runs on one event loop.  An async method runs synchronously  *)
(* up to its first await; what follows an await is a continuation that     *)
(* runs when the awaited future resolves.  Each action below is either a   *)
(* public call (with the synchronous prefix it executes) or one such       *)
(* continuation.  Futures supplied by collaborators (the loading UI, an    *)
(* activity's initialize / asyncShutdown, the engine's load queue, the     *)
(* settle timer) resolve at a time the model does not fix.                 *)
(*                                                                         *)
(* Collaborators outside the repository are modelled by their contract:    *)
(*  - the engine destroys a removed scene: its event listeners and its     *)
(*    load queue are gone, timers already started by it still fire;        *)
(*  - the loading UI does what it was asked last: a hide that resolves     *)
(*    after a later show was requested leaves the loader visible.          *)
(* showLoader and hideLoader are exercised through the transitions, the    *)
(* 'loaded' handler and runLoader; TestGame.loadTestState, which enters    *)
(* loadAndStart without the guard, is not part of the model.               *)
(***************************************************************************)
EXTENDS Integers, Sequences, FiniteSets

\* ------------------------------------------------------------------ bounds
MaxCalls == 2          \* goToActivity / exitActivity calls issued in a run
MaxRunLoaders == 1     \* runLoader calls issued in a run

\* ------------------------------------------------------------------ inputs
KnownIds == {"menu"}              \* ids getStaticConfig resolves
TargetIds == KnownIds \cup {"missing"}
Calls == 1 .. MaxCalls            \* a call, and the scene instance it creates
RunLoaders == 1 .. MaxRunLoaders
NoActivity == 0                   \* _currentActivity = null

VARIABLES
    navigating,          \* BaseGame.navigating
    currentActivity,     \* BaseGame._currentActivity (NoActivity or a scene)
    scenes,              \* activity scenes added to the engine, not destroyed
    interactionEnabled,  \* interaction.enabled
    baseline,            \* the focus baseline last set on the interaction manager
    loaderVisible,       \* the loading UI is (being) shown
    hides,               \* hideLoader calls awaiting the loading UI
    calls,               \* number of goToActivity / exitActivity calls so far
    req,                 \* per call: what was asked and where its async body is
    tdLog,               \* per call: the teardown steps it has executed, in order
    sc,                  \* per scene instance: engine and listener state, event log
    rl,                  \* per runLoader call: its futures
    errors               \* ids logged by console.error as unknown

vars == <<navigating, currentActivity, scenes, interactionEnabled, baseline,
          loaderVisible, hides, calls, req, tdLog, sc, rl, errors>>

\* The orchestrator state a dropped request must leave alone.
gameVars == <<navigating, currentActivity, scenes, interactionEnabled, baseline,
              loaderVisible, hides, tdLog, sc, rl, errors>>

\* ----------------------------------------------------------------- helpers
Happened(s, e) == \E i \in 1 .. Len(s) : s[i] = e

\* Position of the first occurrence of e in s, 0 when absent.
Pos(s, e) ==
    IF Happened(s, e)
    THEN CHOOSE i \in 1 .. Len(s) : s[i] = e /\ \A j \in 1 .. (i - 1) : s[j] # e
    ELSE 0

Count(s, e) == Cardinality({i \in 1 .. Len(s) : s[i] = e})

\* e occurs in s only after d has occurred.
Follows(s, d, e) ==
    \A i \in 1 .. Len(s) : s[i] = e => \E j \in 1 .. (i - 1) : s[j] = d

IsPrefix(s, t) == Len(s) <= Len(t) /\ SubSeq(t, 1, Len(s)) = s

NoRequest == [kind |-> "none", id |-> "none", pc |-> "unused"]

NoScene ==
    [log |-> <<>>, engineStarted |-> FALSE, preloaded |-> FALSE,
     created |-> FALSE, queue |-> "idle", settle |-> FALSE, listener |-> FALSE]

NoRunLoader ==
    [used |-> FALSE, scene |-> NoActivity, shown |-> FALSE, complete |-> FALSE,
     loaded |-> FALSE, visible |-> FALSE, log |-> <<>>]

SceneHide(s) == [kind |-> "scene", n |-> s, stale |-> FALSE]
RunHide(k) == [kind |-> "run", n |-> k, stale |-> FALSE]

\* A lookup that never fails.
getStaticConfigAny(id) == TRUE

\* getStaticConfig(id): metadata for a known id, null otherwise.
getStaticConfig(id) == id \in KnownIds

\* A show request supersedes every hide still awaiting the loading UI.
Superseded(hs) == {[h EXCEPT !.stale = TRUE] : h \in hs}

Init ==
    /\ navigating = FALSE
    /\ currentActivity = NoActivity
    /\ scenes = {}
    /\ interactionEnabled = TRUE
    /\ baseline = "initial"
    /\ loaderVisible = FALSE
    /\ hides = {}
    /\ calls = 0
    /\ req = [r \in Calls |-> NoRequest]
    /\ tdLog = [r \in Calls |-> <<>>]
    /\ sc = [s \in Calls |-> NoScene]
    /\ rl = [k \in RunLoaders |-> NoRunLoader]
    /\ errors = {}

\* ------------------------------------------------- showLoader / hideLoader
\* BaseGame.showLoader: interaction off, then the loading UI is asked to show.
showLoader ==
    /\ interactionEnabled' = FALSE
    /\ loaderVisible' = TRUE
    /\ hides' = Superseded(hides)

\* ---------------------------------------------------------------- requests
\* The synchronous prefix of endCurrentActivity, run inside the accepted call.
BeginTeardown(r, kind, id) ==
    /\ navigating' = TRUE
    /\ showLoader
    /\ req' = [req EXCEPT ![r] = [kind |-> kind, id |-> id, pc |-> "showLoader"]]
    /\ tdLog' = [tdLog EXCEPT ![r] = <<"guard", "showLoader">>]
    /\ UNCHANGED <<currentActivity, scenes, baseline, sc, rl, errors>>

Dropped(r, kind, id) ==
    /\ req' = [req EXCEPT ![r] = [kind |-> kind, id |-> id, pc |-> "dropped"]]
    /\ UNCHANGED gameVars

\* goToActivity without the test of the guard.
GoToActivityUnguarded(id) ==
    /\ calls < MaxCalls
    /\ calls' = calls + 1
    /\ BeginTeardown(calls + 1, "goto", id)

GoToActivity(id) ==
    /\ calls < MaxCalls
    /\ calls' = calls + 1
    /\ IF navigating
       THEN Dropped(calls + 1, "goto", id)
       ELSE BeginTeardown(calls + 1, "goto", id)

ExitActivity ==
    /\ calls < MaxCalls
    /\ calls' = calls + 1
    /\ IF navigating
       THEN Dropped(calls + 1, "exit", "none")
       ELSE BeginTeardown(calls + 1, "exit", "none")

\* ---------------------------------------------------------------- teardown
\* The tail of endCurrentActivity (reset of the input subsystem) and what the
\* caller does once endCurrentActivity has resolved.
AfterTeardown(r) ==
    IF req[r].kind = "exit" THEN "exited"
    ELSE IF getStaticConfig(req[r].id) THEN "loadAndStart"
    ELSE "abandoned"

Abandons(r) == AfterTeardown(r) = "abandoned"

ResetInput == <<"reset", "setBaseline", "clearContexts">>

\* The failure branch releasing the guard.
NavigatingClearedOnFailure(r) == IF Abandons(r) THEN FALSE ELSE navigating

\* The guard once teardown is over: exitActivity and both branches of
\* goToActivityWithArgs return without writing it.
NavigatingAfterTeardown(r) == navigating

\* endCurrentActivity after `await this.showLoader()`.
TeardownShown(r) ==
    /\ req[r].pc = "showLoader"
    /\ IF currentActivity # NoActivity
       THEN /\ req' = [req EXCEPT ![r].pc = "asyncShutdown"]
            /\ tdLog' = [tdLog EXCEPT ![r] = @ \o <<"shown", "asyncShutdown">>]
            /\ UNCHANGED <<navigating, baseline, errors>>
       ELSE /\ req' = [req EXCEPT ![r].pc = AfterTeardown(r)]
            /\ tdLog' = [tdLog EXCEPT ![r] = @ \o <<"shown">> \o ResetInput]
            /\ baseline' = "empty"
            /\ errors' = IF Abandons(r) THEN errors \cup {req[r].id} ELSE errors
            /\ navigating' = NavigatingAfterTeardown(r)
    /\ UNCHANGED <<currentActivity, scenes, interactionEnabled, sc,
                   loaderVisible, hides, calls, rl>>

\* A teardown that leaves the scene in the engine.
SceneRemoveSkipped(s) == scenes

\* scene.remove(ACTIVITY_KEY): the scene leaves the engine's registry.
SceneRemove(s) == scenes \ {s}

\* The engine destroys the removed scene, which drops its listeners and its
\* load queue; shutdown() has run just before.
Destroyed(s) ==
    [sc[s] EXCEPT !.log = @ \o <<"shutdown", "destroy">>,
                  !.listener = FALSE, !.queue = "idle"]

\* endCurrentActivity after `await this._currentActivity.asyncShutdown()`.
TeardownAsyncShutdownDone(r) ==
    /\ req[r].pc = "asyncShutdown"
    /\ IF currentActivity = NoActivity
       THEN \* this._currentActivity.shutdown() on null throws
            /\ req' = [req EXCEPT ![r].pc = "crashed"]
            /\ UNCHANGED <<navigating, currentActivity, scenes, baseline, tdLog, sc,
                           errors>>
       ELSE /\ req' = [req EXCEPT ![r].pc = AfterTeardown(r)]
            /\ sc' = [sc EXCEPT ![currentActivity] = Destroyed(currentActivity)]
            /\ scenes' = SceneRemove(currentActivity)
            /\ currentActivity' = NoActivity
            /\ tdLog' = [tdLog EXCEPT ![r] =
                  @ \o <<"asyncShutdownDone", "shutdown", "destroy", "clearCurrent">>
                    \o ResetInput]
            /\ baseline' = "empty"
            /\ errors' = IF Abandons(r) THEN errors \cup {req[r].id} ELSE errors
            /\ navigating' = NavigatingAfterTeardown(r)
    /\ UNCHANGED <<interactionEnabled, loaderVisible, hides, calls, rl>>

\* ------------------------------------------------------------------- setup
\* loadAndStart after its two awaits: startActivity up to `await initialize`.
\* goToActivityWithArgs not awaiting endCurrentActivity.
ReadyToStartNoAwait(r) ==
    /\ req[r].pc \in {"showLoader", "asyncShutdown", "loadAndStart"}
    /\ req[r].kind = "goto"
    /\ getStaticConfig(req[r].id)

\* loadAndStart is reached only after `await this.endCurrentActivity()` and a
\* successful getStaticConfig.
ReadyToStart(r) == req[r].pc = "loadAndStart"

\* scene.add with autoStart, as the hud is added.
ConstructedAutoStart ==
    [NoScene EXCEPT !.log = <<"construct", "initialize">>, !.engineStarted = TRUE]

\* The scene after scene.add(name, state) and the call of initialize().
Constructed == [NoScene EXCEPT !.log = <<"construct", "initialize">>]

StartActivity(r) ==
    /\ ReadyToStart(r)
    /\ req' = [req EXCEPT ![r].pc = "initialize"]
    /\ scenes' = scenes \cup {r}
    /\ currentActivity' = r
    /\ sc' = [sc EXCEPT ![r] = Constructed]
    /\ tdLog' = [tdLog EXCEPT ![r] = Append(@, "construct")]
    /\ UNCHANGED <<navigating, interactionEnabled, baseline, loaderVisible, hides,
                   calls, rl, errors>>

\* startActivity after `await scene.initialize(...)`.
InitializeResolved(r) ==
    /\ req[r].pc = "initialize"
    /\ IF currentActivity = NoActivity
       THEN \* updateTitle() reads this._currentActivity!.staticConfig
            /\ req' = [req EXCEPT ![r].pc = "crashed"]
            /\ UNCHANGED <<navigating, sc>>
       ELSE /\ req' = [req EXCEPT ![r].pc = "done"]
            /\ sc' = [sc EXCEPT ![r].log = @ \o <<"initialized", "sceneStart">>,
                                ![r].listener = TRUE,
                                ![r].engineStarted = TRUE]
            /\ navigating' = FALSE
    /\ UNCHANGED <<currentActivity, scenes, interactionEnabled, baseline,
                   loaderVisible, hides, calls, tdLog, rl, errors>>

\* --------------------------------------------------------- engine, activity
\* The engine boots a started scene: preload() runs and the load queue starts.
EnginePreload(s) ==
    /\ s \in scenes
    /\ sc[s].engineStarted
    /\ ~sc[s].preloaded
    /\ sc' = [sc EXCEPT ![s].preloaded = TRUE, ![s].queue = "running",
                        ![s].log = Append(@, "preload")]
    /\ UNCHANGED <<navigating, currentActivity, scenes, interactionEnabled,
                   baseline, loaderVisible, hides, calls, req, tdLog, rl, errors>>

\* runLoader returning the bare 'complete' future as `loaded`.
RunLoaderCompleteAlone(k, s) ==
    IF rl[k].used /\ rl[k].scene = s /\ ~rl[k].complete
    THEN [rl[k] EXCEPT !.complete = TRUE, !.loaded = TRUE,
                       !.log = @ \o <<"complete", "loaded", "hideLoader">>]
    ELSE rl[k]

\* runLoader's futures once the queue of scene s has emitted 'complete':
\* `loaded` is Promise.all([complete, shown]).
RunLoaderComplete(k, s) ==
    IF rl[k].used /\ rl[k].scene = s /\ ~rl[k].complete
    THEN [rl[k] EXCEPT !.complete = TRUE, !.loaded = rl[k].shown,
                       !.log = @ \o (IF rl[k].shown
                                     THEN <<"complete", "loaded", "hideLoader">>
                                     ELSE <<"complete">>)]
    ELSE rl[k]

\* The hideLoader calls made by runLoader calls whose `loaded` resolves when rl
\* becomes nrl.
RunLoaderHides(nrl) ==
    {RunHide(k) : k \in {j \in RunLoaders : nrl[j].loaded /\ ~rl[j].loaded}}

\* The load queue of s drains: 'complete' is emitted; on the boot pass the
\* engine then calls create(), which starts the settle timer.
EngineLoadComplete(s) ==
    /\ s \in scenes
    /\ sc[s].queue = "running"
    /\ sc' = [sc EXCEPT ![s].queue = "idle",
                        ![s].created = TRUE,
                        ![s].settle = IF sc[s].created THEN @ ELSE TRUE,
                        ![s].log = IF sc[s].created THEN @ ELSE Append(@, "create")]
    /\ LET nrl == [k \in RunLoaders |-> RunLoaderComplete(k, s)]
       IN /\ rl' = nrl
          /\ hides' = hides \cup RunLoaderHides(nrl)
    /\ UNCHANGED <<navigating, currentActivity, scenes, interactionEnabled,
                   baseline, loaderVisible, calls, req, tdLog, errors>>

\* An activity queues more assets after create and starts its load queue.
SupplementaryLoad(s) ==
    /\ s \in scenes
    /\ sc[s].created
    /\ sc[s].queue = "idle"
    /\ sc' = [sc EXCEPT ![s].queue = "running"]
    /\ UNCHANGED <<navigating, currentActivity, scenes, interactionEnabled,
                   baseline, loaderVisible, hides, calls, req, tdLog, rl, errors>>

\* The settle timer of create() fires and 'loaded' is emitted; the handler
\* startActivity registered (once) runs if it is still attached.
SettleElapsed(s) ==
    /\ sc[s].settle
    /\ IF sc[s].listener
       THEN /\ sc' = [sc EXCEPT ![s].settle = FALSE, ![s].listener = FALSE,
                                ![s].log = @ \o <<"settled", "loaded", "hideLoader">>]
            /\ baseline' = "hud"
            /\ hides' = hides \cup {SceneHide(s)}
       ELSE /\ sc' = [sc EXCEPT ![s].settle = FALSE,
                                ![s].log = Append(@, "settled")]
            /\ UNCHANGED <<baseline, hides>>
    /\ UNCHANGED <<navigating, currentActivity, scenes, interactionEnabled,
                   loaderVisible, calls, req, tdLog, rl, errors>>

\* hideLoader after `await this.globalHud.hideLoader()`, and the callback
\* chained on it by the caller.
HideResolved(h) ==
    /\ h \in hides
    /\ hides' = hides \ {h}
    /\ interactionEnabled' = TRUE
    /\ loaderVisible' = IF h.stale THEN loaderVisible ELSE FALSE
    /\ sc' = IF h.kind = "scene"
             THEN [sc EXCEPT ![h.n].log = @ \o <<"hidden", "start">>]
             ELSE sc
    /\ rl' = IF h.kind = "run"
             THEN [rl EXCEPT ![h.n].visible = TRUE,
                             ![h.n].log = @ \o <<"hidden", "visible">>]
             ELSE rl
    /\ UNCHANGED <<navigating, currentActivity, scenes, baseline, calls, req,
                   tdLog, errors>>

\* --------------------------------------------------------------- runLoader
\* The k-th call of runLoader.
RunLoader(k) ==
    /\ currentActivity # NoActivity
    /\ ~rl[k].used
    /\ \A j \in 1 .. (k - 1) : rl[j].used
    /\ showLoader
    /\ rl' = [rl EXCEPT ![k] = [NoRunLoader EXCEPT !.used = TRUE,
                                                   !.scene = currentActivity,
                                                   !.log = <<"showLoader">>]]
    /\ UNCHANGED <<navigating, currentActivity, scenes, baseline, calls, req,
                   tdLog, sc, errors>>

\* The future returned by runLoader's showLoader() resolves.
RunLoaderShown(k) ==
    /\ rl[k].used
    /\ ~rl[k].shown
    /\ LET nrl == [rl EXCEPT ![k].shown = TRUE, ![k].loaded = rl[k].complete,
                             ![k].log = @ \o (IF rl[k].complete
                                              THEN <<"shown", "loaded", "hideLoader">>
                                              ELSE <<"shown">>)]
       IN /\ rl' = nrl
          /\ hides' = hides \cup RunLoaderHides(nrl)
    /\ UNCHANGED <<navigating, currentActivity, scenes, interactionEnabled,
                   baseline, loaderVisible, calls, req, tdLog, sc, errors>>

\* --------------------------------------------- ManagedLoader (src/index.ts)
\* One ManagedLoader over one scene's engine loader and caches.  A public call
\* runs to completion in one step; the engine's file and batch notifications are
\* steps of their own.
MaxLoaderOps == 3
MaxDescs == 2

Keys == {"a", "ab"}
\* The characters of a string, for String.indexOf.
Text(s) == CASE s = "a" -> <<"a">> [] s = "b" -> <<"b">>
             [] s = "ab" -> <<"a", "b">> [] OTHER -> <<>>
TextureKinds == {"atlas", "spritesheet", "multiatlas", "image"}
FileKinds == {"json", "spine"} \cup TextureKinds
Files == (FileKinds \cup {"audio"}) \X Keys
NoEntry == "none"
\* urls argument of audio(): absent, or a list of paths.
UrlArgs == {"absent", "list"}
\* audio field of a descriptor: absent, a non-list value, or a list of paths.
AudioFields == {"absent", "string", "list"}
Descriptors == [id : Keys, audio : AudioFields, audioObj : BOOLEAN]
FreshDescriptors == {d \in Descriptors : ~d.audioObj}
DescLists == UNION {[1 .. n -> FreshDescriptors] : n \in 1 .. MaxDescs}
KeywordLists == {<<>>, <<"b">>, <<"">>}
MaxPreloads == 2

VARIABLES
    loadedTypeByKey,  \* key -> recorded type, NoEntry when the key has no entry
    pendingLoad,      \* ManagedLoader.pendingLoad
    loadList,         \* files given to scene.load and not yet finished
    loading,          \* the engine loader is running a batch
    cache,            \* entries of the engine caches, [c, key, sub]
    fileListeners,    \* 'filecomplete' listeners of unsettled audio() futures
    loadWaiting,      \* load() futures waiting for 'complete'
    loadYielding,     \* load() futures whose setTimeout(resolve, 1) is pending
    loaderOps,        \* public calls made so far
    fetches,          \* file -> scene.load.* calls since the key was last
                      \* unloaded or the file last failed
    issued,           \* keys this loader has passed to scene.load.*
    queuedSinceDrain, \* a fetch was queued after the last 'complete'
    audioList,        \* the descriptor list given to preloadAudioList
    lastCall          \* what the last public call did

loaderVars == <<loadedTypeByKey, pendingLoad, loadList, loading, cache,
                fileListeners, loadWaiting, loadYielding, loaderOps, fetches,
                issued, queuedSinceDrain, audioList, lastCall>>

Entry(c, k) == [c |-> c, key |-> k, sub |-> FALSE]
SubEntry(c, k) == [c |-> c, key |-> k, sub |-> TRUE]
NoCall == [op |-> "none", key |-> "", urls |-> "", out |-> "none", kws |-> <<>>]
Call(op, k, out) == [NoCall EXCEPT !.op = op, !.key = k, !.out = out]
AudioCall(k, urls, out) == [Call("audio", k, out) EXCEPT !.urls = urls]

LoaderInit ==
    /\ loadedTypeByKey = [k \in Keys |-> NoEntry]
    /\ pendingLoad = FALSE
    /\ loadList = {}
    /\ loading = FALSE
    /\ cache = {}
    /\ fileListeners = {}
    /\ loadWaiting = 0
    /\ loadYielding = 0
    /\ loaderOps = 0
    /\ fetches = [f \in Files |-> 0]
    /\ issued = {}
    /\ queuedSinceDrain = FALSE
    /\ audioList = <<>>
    /\ lastCall = NoCall

\* The existence test each load method makes before it queues a fetch.
InCache(kind, k) ==
    CASE kind = "json" -> Entry("json", k) \in cache
      [] kind = "spine" -> Entry("spine", k) \in cache
      [] kind = "audio" -> Entry("audio", k) \in cache
      [] OTHER -> Entry("texture", k) \in cache

\* The type a load method records in loadedTypeByKey.
RecordedType(kind) == IF kind = "multiatlas" THEN "image" ELSE kind

\* What the engine puts in its caches when a file has loaded.
Produced(kind, k) ==
    CASE kind = "json" -> {Entry("json", k)}
      [] kind = "spine" -> {Entry("spine", k), Entry("json", k),
                            SubEntry("texture", k)}
      [] kind = "audio" -> {Entry("audio", k)}
      [] OTHER -> {Entry("texture", k)}

\* What unload() removes for an entry of the given recorded type.
Removed(type, k) ==
    CASE type = "image" -> {Entry("texture", k)}
      [] type = "json" -> {Entry("json", k)}
      [] type = "audio" -> {Entry("sound", k), Entry("audio", k)}
      [] type = "atlas" -> {Entry("texture", k), Entry("json", k)}
      [] type = "spritesheet" -> {Entry("texture", k)}
      [] type = "spine" -> {Entry("json", k), SubEntry("texture", k),
                            Entry("spine", k), Entry("spineTextures", k)}
      [] OTHER -> {}

\* json(), atlas(), spritesheet(), spine(), multiatlas(), image().
Request(kind, k) ==
    /\ loaderOps < MaxLoaderOps
    /\ loaderOps' = loaderOps + 1
    /\ IF InCache(kind, k)
       THEN /\ lastCall' = Call(kind, k, "present")
            /\ UNCHANGED <<loadedTypeByKey, pendingLoad, loadList, fetches,
                           issued, queuedSinceDrain>>
       ELSE /\ loadList' = loadList \cup {<<kind, k>>}
            /\ fetches' = [fetches EXCEPT ![<<kind, k>>] = @ + 1]
            /\ issued' = issued \cup {k}
            /\ queuedSinceDrain' = TRUE
            /\ loadedTypeByKey' = [loadedTypeByKey EXCEPT ![k] = RecordedType(kind)]
            /\ pendingLoad' = TRUE
            /\ lastCall' = Call(kind, k, "queued")
    /\ UNCHANGED <<loading, cache, fileListeners, loadWaiting, loadYielding,
                   audioList>>

\* audio() that sets the pending flag before it looks at urls.
AudioFlagsFirst(k, urls) ==
    /\ loaderOps < MaxLoaderOps
    /\ loaderOps' = loaderOps + 1
    /\ IF InCache("audio", k)
       THEN /\ lastCall' = AudioCall(k, urls, "present")
            /\ UNCHANGED <<loadedTypeByKey, pendingLoad, loadList, fetches,
                           issued, queuedSinceDrain, fileListeners>>
       ELSE IF urls = "absent"
       THEN /\ pendingLoad' = TRUE
            /\ lastCall' = AudioCall(k, urls, "rejected")
            /\ UNCHANGED <<loadedTypeByKey, loadList, fetches, issued, queuedSinceDrain,
                           fileListeners>>
       ELSE /\ pendingLoad' = TRUE
            /\ loadList' = loadList \cup {<<"audio", k>>}
            /\ fetches' = [fetches EXCEPT ![<<"audio", k>>] = @ + 1]
            /\ issued' = issued \cup {k}
            /\ queuedSinceDrain' = TRUE
            /\ loadedTypeByKey' = [loadedTypeByKey EXCEPT ![k] = "audio"]
            /\ fileListeners' = fileListeners \cup {[key |-> k, d |-> 0]}
            /\ lastCall' = AudioCall(k, urls, "queued")
    /\ UNCHANGED <<loading, cache, loadWaiting, loadYielding, audioList>>

\* audio(key, urls) called directly: descriptor 0 is "no descriptor".
Audio(k, urls) ==
    /\ loaderOps < MaxLoaderOps
    /\ loaderOps' = loaderOps + 1
    /\ IF InCache("audio", k)
       THEN /\ lastCall' = AudioCall(k, urls, "present")
            /\ UNCHANGED <<loadedTypeByKey, pendingLoad, loadList, fetches,
                           issued, queuedSinceDrain, fileListeners>>
       ELSE IF urls = "absent"
       THEN /\ lastCall' = AudioCall(k, urls, "rejected")
            /\ UNCHANGED <<loadedTypeByKey, pendingLoad, loadList, fetches,
                           issued, queuedSinceDrain, fileListeners>>
       ELSE /\ pendingLoad' = TRUE
            /\ loadList' = loadList \cup {<<"audio", k>>}
            /\ fetches' = [fetches EXCEPT ![<<"audio", k>>] = @ + 1]
            /\ issued' = issued \cup {k}
            /\ queuedSinceDrain' = TRUE
            /\ loadedTypeByKey' = [loadedTypeByKey EXCEPT ![k] = "audio"]
            /\ fileListeners' = fileListeners \cup {[key |-> k, d |-> 0]}
            /\ lastCall' = AudioCall(k, urls, "queued")
    /\ UNCHANGED <<loading, cache, loadWaiting, loadYielding, audioList>>

\* String.indexOf: the 0-based place of the first occurrence, -1 when none.
IndexOf(text, w) ==
    LET at == {i \in 1 .. (Len(text) + 1) :
                   /\ i + Len(w) - 1 <= Len(text)
                   /\ SubSeq(text, i, i + Len(w) - 1) = w}
    IN IF at = {} THEN -1 ELSE (CHOOSE i \in at : \A j \in at : i <= j) - 1

\* preloadAudioList's loop body up to the audio() call: TRUE when it calls it.
ShouldLoadAnyId(data, excludeKeywords) ==
    /\ data.audio = "list"
    /\ ~data.audioObj

ShouldLoad(data, excludeKeywords) ==
    /\ ~\E j \in 1 .. Len(excludeKeywords) :
           IndexOf(Text(data.id), Text(excludeKeywords[j])) > -1
    /\ data.audio = "list"
    /\ ~data.audioObj

\* preloadAudioList(list, excludeKeywords): the whole loop.  The first call
\* brings the list, later calls pass the same list object again.
PreloadAudioList(list, excludeKeywords) ==
    /\ loaderOps < MaxPreloads
    /\ loaderOps' = loaderOps + 1
    /\ IF audioList = <<>> THEN list \in DescLists ELSE list = audioList
    /\ LET wanted == {i \in DOMAIN list : ShouldLoad(list[i], excludeKeywords)}
           hit == {i \in wanted : InCache("audio", list[i].id)}
           miss == wanted \ hit
           ids == {list[i].id : i \in miss}
       IN /\ audioList' = [i \in DOMAIN list |->
                             IF i \in hit /\ Entry("sound", list[i].id) \in cache
                             THEN [list[i] EXCEPT !.audioObj = TRUE]
                             ELSE list[i]]
          /\ loadList' = loadList \cup {<<"audio", k>> : k \in ids}
          /\ fetches' = [f \in Files |->
                           fetches[f] + Cardinality({i \in miss :
                                            f = <<"audio", list[i].id>>})]
          /\ issued' = issued \cup ids
          /\ queuedSinceDrain' = (queuedSinceDrain \/ miss # {})
          /\ loadedTypeByKey' = [k \in Keys |->
                                   IF k \in ids THEN "audio"
                                   ELSE loadedTypeByKey[k]]
          /\ pendingLoad' = (pendingLoad \/ miss # {})
          /\ fileListeners' = fileListeners \cup
                                {[key |-> list[i].id, d |-> i] : i \in miss}
    /\ lastCall' = [Call("preloadAudioList", "", "done")
                         EXCEPT !.kws = excludeKeywords]
    /\ UNCHANGED <<loading, cache, loadWaiting, loadYielding>>

\* unload(keys), for the keys that have an entry.
UnloadKeys(keys) ==
    /\ cache' = cache \ UNION {Removed(loadedTypeByKey[k], k) : k \in keys}
    /\ loadedTypeByKey' = [k \in Keys |-> IF k \in keys THEN NoEntry
                                          ELSE loadedTypeByKey[k]]
    /\ fetches' = [f \in Files |-> IF f[2] \in keys THEN 0 ELSE fetches[f]]

Unload(k) ==
    /\ loaderOps < MaxLoaderOps
    /\ loaderOps' = loaderOps + 1
    /\ UnloadKeys({k} \cap {x \in Keys : loadedTypeByKey[x] # NoEntry})
    /\ lastCall' = Call("unload", k, "done")
    /\ UNCHANGED <<pendingLoad, loadList, loading, fileListeners, loadWaiting,
                   loadYielding, issued, queuedSinceDrain, audioList>>

UnloadAll ==
    /\ loaderOps < MaxLoaderOps
    /\ loaderOps' = loaderOps + 1
    /\ UnloadKeys({x \in Keys : loadedTypeByKey[x] # NoEntry})
    /\ lastCall' = Call("unloadAll", "", "done")
    /\ UNCHANGED <<pendingLoad, loadList, loading, fileListeners, loadWaiting,
                   loadYielding, issued, queuedSinceDrain, audioList>>

\* load() that starts a batch whatever the pending flag says.
LoadAlwaysStarts ==
    /\ loaderOps < MaxLoaderOps
    /\ loaderOps' = loaderOps + 1
    /\ loadWaiting' = loadWaiting + 1
    /\ loading' = TRUE
    /\ lastCall' = Call("load", "", "waiting")
    /\ UNCHANGED <<loadedTypeByKey, pendingLoad, loadList, cache,
                   fileListeners, loadYielding, fetches, issued, queuedSinceDrain, audioList>>

\* load(): scene.load.start() does nothing while a batch is running.
Load ==
    /\ loaderOps < MaxLoaderOps
    /\ loaderOps' = loaderOps + 1
    /\ IF ~pendingLoad
       THEN /\ lastCall' = Call("load", "", "resolved")
            /\ UNCHANGED <<loadWaiting, loading>>
       ELSE /\ loadWaiting' = loadWaiting + 1
            /\ loading' = TRUE
            /\ lastCall' = Call("load", "", "waiting")
    /\ UNCHANGED <<loadedTypeByKey, pendingLoad, loadList, cache,
                   fileListeners, loadYielding, fetches, issued, queuedSinceDrain, audioList>>

\* The engine starts a batch of its own (the scene's preload pass).
EngineStart ==
    /\ ~loading
    /\ loading' = TRUE
    /\ UNCHANGED <<loadedTypeByKey, pendingLoad, loadList, cache,
                   fileListeners, loadWaiting, loadYielding, loaderOps,
                   fetches, issued, queuedSinceDrain, audioList, lastCall>>

\* A file of the running batch has loaded: it is cached, then 'filecomplete'
\* is emitted with its key.  audio()'s fileLoaded listeners for that key
\* detach; each resolves with scene.sound.add(key) when the audio cache has
\* the key and otherwise only logs an error.
FileComplete(f) ==
    /\ loading
    /\ f \in loadList
    /\ loadList' = loadList \ {f}
    /\ LET heard == {l \in fileListeners : l.key = f[2]}
           cached == cache \cup Produced(f[1], f[2])
           resolved == IF Entry("audio", f[2]) \in cached THEN heard ELSE {}
       IN /\ fileListeners' = fileListeners \ heard
          /\ cache' = cached \cup {Entry("sound", l.key) : l \in resolved}
          /\ audioList' = [i \in DOMAIN audioList |->
                             IF \E l \in resolved : l.d = i
                             THEN [audioList[i] EXCEPT !.audioObj = TRUE]
                             ELSE audioList[i]]
    /\ UNCHANGED <<loadedTypeByKey, pendingLoad, loading, loadWaiting,
                   loadYielding, loaderOps, fetches, issued, queuedSinceDrain, lastCall>>

\* A file of the running batch failed: nothing is cached, no 'filecomplete'.
FileFail(f) ==
    /\ loading
    /\ f \in loadList
    /\ loadList' = loadList \ {f}
    /\ fetches' = [fetches EXCEPT ![f] = 0]
    /\ UNCHANGED <<loadedTypeByKey, pendingLoad, loading, cache, fileListeners,
                   loadWaiting, loadYielding, loaderOps, issued, queuedSinceDrain, audioList,
                   lastCall>>

\* The batch has drained: 'complete' runs every waiting load() listener.
BatchComplete ==
    /\ loading
    /\ loadList = {}
    /\ loading' = FALSE
    /\ queuedSinceDrain' = FALSE
    /\ pendingLoad' = (pendingLoad /\ loadWaiting = 0)
    /\ loadYielding' = loadYielding + loadWaiting
    /\ loadWaiting' = 0
    /\ UNCHANGED <<loadedTypeByKey, loadList, cache, fileListeners, loaderOps,
                   fetches, issued, audioList, lastCall>>

\* A load() future's setTimeout(resolve, 1) fires.
LoadResolved ==
    /\ loadYielding > 0
    /\ loadYielding' = loadYielding - 1
    /\ UNCHANGED <<loadedTypeByKey, pendingLoad, loadList, loading, cache,
                   fileListeners, loadWaiting, loaderOps, fetches, issued, queuedSinceDrain,
                   audioList, lastCall>>

\* ------------------------------- AudioManager, voice (src/audio/AudioManager.ts)
\* The voice channel of one AudioManager.  A public call runs to completion in
\* one step.  A clip's 'complete' event is a step: it runs the clip's listeners
\* and then, as microtasks, the playVOClips loops whose awaited future resolved.
MaxVoOps == 3
MaxStack == 3

Clips == {"A", "B"}
NoClip == "none"
ClipLists == {<<"A">>, <<"A", "B">>, <<"B", "A">>}
\* currentVOClips = null; the lists passed in are never empty.
NoList == <<>>
NoFuture == 0
NoLoop == 0

VARIABLES
    vo,      \* the voice channel and its clips, futures and playVOClips loops
    voOps    \* public calls made so far

voVars == <<vo, voOps>>

Range(seq) == {seq[i] : i \in DOMAIN seq}

VoInit ==
    /\ vo = [currentVOClip |-> NoClip,
             currentVOClips |-> NoList,
             voMuted |-> FALSE,
             \* per clip: "stopped", "playing" or "paused"
             state |-> [c \in Clips |-> "stopped"],
             mute |-> [c \in Clips |-> FALSE],
             \* per clip: its 'complete' listeners, by the future each resolves
             onComplete |-> [c \in Clips |-> <<>>],
             \* per clip: the future made by the play() that started it last
             play |-> [c \in Clips |-> NoFuture],
             \* the futures playSingleVOClip has returned
             futures |-> <<>>,
             \* the playVOClips calls
             loops |-> <<>>,
             \* the last doDialogue call over a list
             dialogue |-> [ids |-> <<>>, out |-> "none", started |-> <<>>],
             \* the future of the call just made, when it was playSingleVOClip
             justReturned |-> NoFuture]
    /\ voOps = 0

\* stopAllVOClips() that leaves the current clip playing.
StopAllVOClipsNoStop(v) ==
    [v EXCEPT !.currentVOClip = NoClip, !.currentVOClips = NoList]

\* stopAllVOClips().  Sound.stop() emits 'stop', never 'complete'.
StopAllVOClips(v) ==
    LET v1 == IF v.currentVOClip # NoClip
              THEN [v EXCEPT !.state[v.currentVOClip] = "stopped",
                             !.currentVOClip = NoClip]
              ELSE v
        listed == Range(v1.currentVOClips)
    IN [v1 EXCEPT !.onComplete = [c \in Clips |-> IF c \in listed THEN <<>>
                                                   ELSE v1.onComplete[c]],
                  !.state = [c \in Clips |-> IF c \in listed THEN "stopped"
                                              ELSE v1.state[c]],
                  !.currentVOClips = NoList]

\* playSingleVOClip(audio), called by loop l or, l = NoLoop, by the user.
PlaySingleVOClip(v, audio, l) ==
    LET v1 == StopAllVOClips(v)
        n == Len(v1.futures) + 1
    IN [v1 EXCEPT !.currentVOClip = audio,
                  !.mute[audio] = v1.voMuted,
                  !.onComplete[audio] = Append(@, n),
                  !.state[audio] = "playing",
                  !.play[audio] = n,
                  !.futures = Append(@, [clip |-> audio, loop |-> l,
                                         resolvedBy |-> NoFuture,
                                         replaced |-> FALSE])]

\* The body of playVOClips' while loop, from its test to the next await.
RunLoop(v, l) ==
    LET loop == v.loops[l]
    IN IF loop.rest = <<>>
       THEN [v EXCEPT !.loops[l].done = TRUE]
       ELSE PlaySingleVOClip(
                [v EXCEPT !.loops[l].rest = Tail(loop.rest),
                          !.loops[l].started = Append(@, Head(loop.rest)),
                          !.loops[l].resumed = loop.interrupted],
                Head(loop.rest), l)

\* A call from outside the loops cuts into every loop that has not finished.
Interrupt(v) ==
    [v EXCEPT !.loops = [l \in DOMAIN v.loops |->
                            IF v.loops[l].done THEN v.loops[l]
                            ELSE [v.loops[l] EXCEPT !.interrupted = TRUE]],
              !.justReturned = NoFuture]

\* The 'complete' listeners of a clip run in the order they were attached:
\* each does audio.off('complete') and resolves its future.
Resolve(v, c, fs) ==
    [v EXCEPT !.onComplete[c] = <<>>,
              !.futures = [n \in DOMAIN v.futures |->
                              IF n \in Range(fs) /\ v.futures[n].resolvedBy = NoFuture
                              THEN [v.futures[n] EXCEPT !.resolvedBy = v.play[c]]
                              ELSE v.futures[n]]]

\* The loops awaiting the futures fs continue, in the order of fs.
RECURSIVE Continue(_, _)
Continue(v, fs) ==
    IF fs = <<>> THEN v
    ELSE LET l == v.futures[Head(fs)].loop
         IN Continue(IF l = NoLoop THEN v ELSE RunLoop(v, l), Tail(fs))

\* ---- the steps
VoPlaySingleVOClip(audio) ==
    /\ voOps < MaxVoOps
    /\ voOps' = voOps + 1
    /\ LET prev == vo.justReturned
           v0 == IF prev # NoFuture /\ vo.futures[prev].clip # audio
                 THEN [vo EXCEPT !.futures[prev].replaced = TRUE]
                 ELSE vo
           v1 == PlaySingleVOClip(Interrupt(v0), audio, NoLoop)
       IN vo' = [v1 EXCEPT !.justReturned = Len(v1.futures)]

\* BaseScene.doDialogue(audio) with a list of ids, at a depth of the call
\* stack: the loop's first pass calls doDialogue with the whole list again
\* and awaits it, so the call returns what that inner call returns; a call
\* beyond the stack's limit throws RangeError, which rejects every future on
\* the way out.  A single id goes to playSingleVOClip (VoPlaySingleVOClip).
RECURSIVE doDialogue(_, _)
doDialogue(audio, depth) ==
    IF depth > MaxStack THEN "RangeError"
    ELSE IF Len(audio) = 0 THEN "resolved"
    ELSE doDialogue(audio, depth + 1)

VoDoDialogue(audio) ==
    /\ voOps < MaxVoOps
    /\ voOps' = voOps + 1
    /\ vo' = [vo EXCEPT !.dialogue = [ids |-> audio,
                                      out |-> doDialogue(audio, 1),
                                      started |-> <<>>]]

VoStopAllVOClips ==
    /\ voOps < MaxVoOps
    /\ voOps' = voOps + 1
    /\ vo' = StopAllVOClips(Interrupt(vo))

VoPlayVOClips(audioClips) ==
    /\ voOps < MaxVoOps
    /\ voOps' = voOps + 1
    /\ LET v1 == StopAllVOClips(Interrupt(vo))
           l == Len(v1.loops) + 1
           v2 == [v1 EXCEPT !.currentVOClips = audioClips,
                            !.loops = Append(@, [list |-> audioClips,
                                                 rest |-> audioClips,
                                                 started |-> <<>>,
                                                 done |-> FALSE,
                                                 interrupted |-> FALSE,
                                                 resumed |-> FALSE])]
       IN vo' = RunLoop(v2, l)

VoSetVOPaused(pause) ==
    /\ voOps < MaxVoOps
    /\ voOps' = voOps + 1
    /\ LET c == vo.currentVOClip
           v == [vo EXCEPT !.justReturned = NoFuture]
       IN vo' = IF c = NoClip THEN v
                ELSE IF pause /\ vo.state[c] = "playing"
                THEN [v EXCEPT !.state[c] = "paused"]
                ELSE IF ~pause /\ vo.state[c] = "paused"
                THEN [v EXCEPT !.state[c] = "playing"]
                ELSE v

VoSetVOMute(muted) ==
    /\ voOps < MaxVoOps
    /\ voOps' = voOps + 1
    /\ LET c == vo.currentVOClip
           v == [vo EXCEPT !.voMuted = muted, !.justReturned = NoFuture]
       IN vo' = IF c = NoClip THEN v ELSE [v EXCEPT !.mute[c] = muted]

\* A playing clip reaches its end.
VoComplete(c) ==
    /\ vo.state[c] = "playing"
    /\ LET fs == vo.onComplete[c]
           v1 == [vo EXCEPT !.state[c] = "stopped", !.justReturned = NoFuture]
           waiting == SelectSeq(fs, LAMBDA n : vo.futures[n].resolvedBy = NoFuture)
       IN vo' = Continue(Resolve(v1, c, fs), waiting)
    /\ UNCHANGED voOps

\* --------------------------------- AudioManager, sfx (src/audio/AudioManager.ts)
\* The sfx channel of one AudioManager.  Clips are interchangeable: a clip that
\* was never played is taken in index order.
MaxSfxOps == 5
MaxSfxClips == 4
SfxClips == 1 .. MaxSfxClips

VARIABLES
    sfxMuted,     \* AudioManager._sfxMuted
    sfxClips,     \* AudioManager.sfxClips, the active set
    sfxState,     \* per clip: "new", "stopped", "playing" or "looping"
    sfxListeners, \* per clip: TRUE when it has 'stop'/'complete' listeners
    sfxOps,       \* public calls made so far
    sfxCall       \* the last public call and the size of the set it found

sfxVars == <<sfxMuted, sfxClips, sfxState, sfxListeners, sfxOps, sfxCall>>

NoSfxCall == [op |-> "none", clip |-> 0, loop |-> FALSE, muted |-> FALSE,
              found |-> {}]

SfxInit ==
    /\ sfxMuted = FALSE
    /\ sfxClips = {}
    /\ sfxState = [c \in SfxClips |-> "new"]
    /\ sfxListeners = [c \in SfxClips |-> FALSE]
    /\ sfxOps = 0
    /\ sfxCall = NoSfxCall

\* stopSfx(): every clip of the set loses its listeners and is stopped.
Stopped(state) == [c \in SfxClips |-> IF c \in sfxClips THEN "stopped" ELSE state[c]]
Detached(ls) == [c \in SfxClips |-> IF c \in sfxClips THEN FALSE ELSE ls[c]]

\* playSfx() that stops the other clips only when asked to.
PlaySfxStopOnRequest(sfx, stop, loop) ==
    /\ sfxOps < MaxSfxOps
    /\ sfxOps' = sfxOps + 1
    /\ sfxState[sfx] = "new" => \A c \in 1 .. (sfx - 1) : sfxState[c] # "new"
    /\ sfxCall' = [op |-> "playSfx", clip |-> sfx, loop |-> loop,
                   muted |-> sfxMuted, found |-> sfxClips]
    /\ LET stopping == stop
           state == IF stopping THEN Stopped(sfxState) ELSE sfxState
           ls == IF stopping THEN Detached(sfxListeners) ELSE sfxListeners
           set == IF stopping THEN {} ELSE sfxClips
       IN IF sfxMuted /\ ~loop
          THEN /\ sfxState' = state
               /\ sfxListeners' = ls
               /\ sfxClips' = set
          ELSE /\ sfxState' = [state EXCEPT ![sfx] = IF loop THEN "looping"
                                                     ELSE "playing"]
               /\ sfxListeners' = [ls EXCEPT ![sfx] = TRUE]
               /\ sfxClips' = set \cup {sfx}
    /\ UNCHANGED sfxMuted

\* playSfx(sfx, stop, loop).
PlaySfx(sfx, stop, loop) ==
    /\ sfxOps < MaxSfxOps
    /\ sfxOps' = sfxOps + 1
    /\ sfxState[sfx] = "new" => \A c \in 1 .. (sfx - 1) : sfxState[c] # "new"
    /\ sfxCall' = [op |-> "playSfx", clip |-> sfx, loop |-> loop,
                   muted |-> sfxMuted, found |-> sfxClips]
    /\ LET stopping == stop \/ sfxMuted
           state == IF stopping THEN Stopped(sfxState) ELSE sfxState
           ls == IF stopping THEN Detached(sfxListeners) ELSE sfxListeners
           set == IF stopping THEN {} ELSE sfxClips
       IN IF sfxMuted /\ ~loop
          THEN /\ sfxState' = state
               /\ sfxListeners' = ls
               /\ sfxClips' = set
          ELSE /\ sfxState' = [state EXCEPT ![sfx] = IF loop THEN "looping"
                                                     ELSE "playing"]
               /\ sfxListeners' = [ls EXCEPT ![sfx] = TRUE]
               /\ sfxClips' = set \cup {sfx}
    /\ UNCHANGED sfxMuted

\* BaseScene.playSfx(name).  A name in SfxClips is that of an existing sound
\* (scene registry or globalSfx); NoSoundName is a name with no sound.
NoSoundName == MaxSfxClips + 1
SoundNames == SfxClips \cup {NoSoundName}

ScenePlaySfx(name) ==
    /\ sfxOps < MaxSfxOps
    /\ sfxOps' = sfxOps + 1
    /\ name \in SfxClips /\ sfxState[name] = "new" =>
           \A c \in 1 .. (name - 1) : sfxState[c] # "new"
    /\ sfxCall' = [NoSfxCall EXCEPT !.op = "scene.playSfx", !.clip = name,
                                    !.muted = sfxMuted, !.found = sfxClips]
    /\ IF name \in SfxClips
       THEN \* if (sound): the error is logged and the method returns
            UNCHANGED <<sfxMuted, sfxClips, sfxState, sfxListeners>>
       ELSE \* audioManager.playSfx(undefined): logs and returns
            UNCHANGED <<sfxMuted, sfxClips, sfxState, sfxListeners>>

StopSfx ==
    /\ sfxOps < MaxSfxOps
    /\ sfxOps' = sfxOps + 1
    /\ sfxState' = Stopped(sfxState)
    /\ sfxListeners' = Detached(sfxListeners)
    /\ sfxClips' = {}
    /\ sfxCall' = [NoSfxCall EXCEPT !.op = "stopSfx", !.found = sfxClips]
    /\ UNCHANGED sfxMuted

SetSfxMute(muted) ==
    /\ sfxOps < MaxSfxOps
    /\ sfxOps' = sfxOps + 1
    /\ sfxMuted' = muted
    /\ sfxCall' = [NoSfxCall EXCEPT !.op = "setSfxMute", !.muted = muted,
                                    !.found = sfxClips]
    /\ UNCHANGED <<sfxClips, sfxState, sfxListeners>>

\* A clip that does not loop reaches its end: 'complete' runs removeSFX when
\* the clip still has its listeners.
SfxComplete(c) ==
    /\ sfxState[c] = "playing"
    /\ sfxState' = [sfxState EXCEPT ![c] = "stopped"]
    /\ IF sfxListeners[c]
       THEN /\ sfxListeners' = [sfxListeners EXCEPT ![c] = FALSE]
            /\ sfxClips' = sfxClips \ {c}
       ELSE UNCHANGED <<sfxListeners, sfxClips>>
    /\ UNCHANGED <<sfxMuted, sfxOps, sfxCall>>

\* ------------------- AudioManager, mute state (src/audio/AudioManager.ts)
\* The three channels of one AudioManager with the mute state of every clip.
\* Each method is an operator from the manager's state to its next state; a
\* clip belongs to one channel.
MaxMusicClips == 2

MusicSounds == {"m1", "m2"}
SfxSounds == {"s1", "s2"}
VoSounds == {"v1", "v2"}
Sounds == MusicSounds \cup SfxSounds \cup VoSounds

VARIABLES
    mix      \* flags, tracked clips, and per clip its mute and playing state

mixVars == <<mix>>

MixInit ==
    mix = [allMuted |-> FALSE, musicMuted |-> FALSE, sfxMuted |-> FALSE,
           voMuted |-> FALSE,
           musicClips |-> <<>>, sfxClips |-> {}, currentVOClip |-> NoClip,
           mute |-> [c \in Sounds |-> FALSE],
           playing |-> [c \in Sounds |-> FALSE]]

\* clip.mute = value for every clip of a set.
Muted(m, clips, value) ==
    [c \in Sounds |-> IF c \in clips THEN value ELSE m.mute[c]]

\* clip.stop() for every clip of a set.
Silenced(m, clips) ==
    [c \in Sounds |-> IF c \in clips THEN FALSE ELSE m.playing[c]]

setMusicMute(m, muted) ==
    [m EXCEPT !.musicMuted = muted,
              !.mute = Muted(m, Range(m.musicClips), muted \/ m.allMuted)]

setSfxMute(m, muted) ==
    [m EXCEPT !.sfxMuted = muted,
              !.mute = Muted(m, m.sfxClips, muted \/ m.allMuted)]

setVOMute(m, muted) ==
    [m EXCEPT !.voMuted = muted,
              !.mute = Muted(m, {m.currentVOClip} \cap Sounds,
                             muted \/ m.allMuted)]

\* setAllMute() that only records the flag.
setAllMuteFlagOnly(m, muted) == [m EXCEPT !.allMuted = muted]

setAllMute(m, muted) ==
    LET m0 == [m EXCEPT !.allMuted = muted]
        m1 == setMusicMute(m0, m0.musicMuted)
        m2 == setSfxMute(m1, m1.sfxMuted)
    IN setVOMute(m2, m2.voMuted)

playMusic(m, music) ==
    [m EXCEPT !.mute[music] = m.musicMuted \/ m.allMuted,
              !.playing[music] = TRUE,
              !.musicClips = Append(@, music)]

\* stopMusic() that forgets the list without stopping its clips.
stopMusicKeepsPlaying(m) == [m EXCEPT !.musicClips = <<>>]

stopMusic(m) ==
    [m EXCEPT !.playing = Silenced(m, Range(m.musicClips)),
              !.musicClips = <<>>]

stopSfx(m) ==
    [m EXCEPT !.playing = Silenced(m, m.sfxClips), !.sfxClips = {}]

playSfx(m, sfx, stop, loop) ==
    LET m1 == IF stop \/ m.sfxMuted THEN stopSfx(m) ELSE m
    IN IF m.sfxMuted /\ ~loop THEN m1
       ELSE [m1 EXCEPT !.mute[sfx] = m.sfxMuted \/ m.allMuted,
                       !.playing[sfx] = TRUE,
                       !.sfxClips = @ \cup {sfx}]

playSingleVOClip(m, audio) ==
    [m EXCEPT !.playing = [Silenced(m, {m.currentVOClip} \cap Sounds)
                              EXCEPT ![audio] = TRUE],
              !.currentVOClip = audio,
              !.mute[audio] = m.voMuted \/ m.allMuted]

\* ---- the steps
MixSetAllMute(muted) == mix' = setAllMute(mix, muted)
MixSetMusicMute(muted) == mix' = setMusicMute(mix, muted)
MixSetSfxMute(muted) == mix' = setSfxMute(mix, muted)
MixSetVOMute(muted) == mix' = setVOMute(mix, muted)
MixPlayMusic(music) ==
    /\ Len(mix.musicClips) < MaxMusicClips
    /\ mix' = playMusic(mix, music)
MixPlaySfx(sfx, stop, loop) == mix' = playSfx(mix, sfx, stop, loop)
MixPlaySingleVOClip(audio) == mix' = playSingleVOClip(mix, audio)

\* ------------------------- BaseGame, resize debounce (src/game/BaseGame.ts)
\* Time is in milliseconds and moves in half windows; a timer runs at the
\* instant it is due, in either order with a resize signal of that instant.
MaxSignals == 3
MaxTime == 200
ResizeDelay == 50

VARIABLES
    rz       \* clock, resizeTimer, the window's pending timers, and history

rzVars == <<rz>>

ResizeInit ==
    rz = [now |-> 0, resizeTimer |-> 0, timers |-> {},
          signals |-> 0, signalled |-> FALSE, lastSignal |-> 0,
          burst |-> 0, layouts |-> 0, sinceSignal |-> 0, midBurst |-> 0]

\* The window's timers after clearTimeout(id).
clearTimeout(timers, id) == {t \in timers : t.id # id}

InWindow(r) == r.signalled /\ r.now - r.lastSignal < ResizeDelay

\* The 'resize' listener without its clearTimeout.
OnResizeNoClear(r) ==
    LET id == r.signals + 1
    IN [r EXCEPT !.timers = @ \cup {[id |-> id, due |-> r.now + ResizeDelay]},
                 !.resizeTimer = id,
                 !.signals = id, !.signalled = TRUE, !.lastSignal = r.now,
                 !.burst = IF InWindow(r) THEN @ + 1 ELSE 1,
                 !.sinceSignal = 0,
                 !.midBurst = IF InWindow(r) /\ r.sinceSignal > 0
                                  THEN @ + 1 ELSE @]

\* The 'resize' listener of the window.
OnResize(r) ==
    LET id == r.signals + 1
        pending == IF r.resizeTimer # 0
                       THEN clearTimeout(r.timers, r.resizeTimer)
                       ELSE r.timers
    IN [r EXCEPT !.timers = pending \cup {[id |-> id, due |-> r.now + ResizeDelay]},
                 !.resizeTimer = id,
                 !.signals = id, !.signalled = TRUE, !.lastSignal = r.now,
                 !.burst = IF InWindow(r) THEN @ + 1 ELSE 1,
                 !.sinceSignal = 0,
                 !.midBurst = IF InWindow(r) /\ r.sinceSignal > 0
                                  THEN @ + 1 ELSE @]

\* ---- the steps
ResizeSignal ==
    /\ rz.signals < MaxSignals
    /\ rz' = OnResize(rz)

\* The timer callback: resizeTimer = 0; this.resize().
ResizeTimerFires(t) ==
    /\ t \in rz.timers
    /\ t.due <= rz.now
    /\ rz' = [rz EXCEPT !.timers = @ \ {t},
                        !.resizeTimer = 0,
                        !.layouts = @ + 1,
                        !.sinceSignal = @ + 1]

ResizeTick ==
    /\ rz.now < MaxTime
    /\ \A t \in rz.timers : t.due > rz.now
    /\ rz' = [rz EXCEPT !.now = @ + ResizeDelay \div 2]

\* ------------------------------- BaseScene, shutdown (src/unnamed/part_000)
\* One activity with its loader, the shared AudioManager and the disposables
\* it tracks, up to the return of shutdown().
MaxSceneOps == 3
MaxDisposables == 2

Disposables == 1 .. MaxDisposables

VARIABLES
    scene    \* cleanup group, what was ever tracked or disposed, shut down

sceneVars == <<scene>>

SceneInit ==
    scene = [cleanup |-> {}, tracked |-> {}, disposed |-> {},
             ops |-> 0, shut |-> FALSE]

SceneCall ==
    /\ ~scene.shut
    /\ scene.ops < MaxSceneOps

Called(s) == [s EXCEPT !.ops = @ + 1]

\* this.cleanup.add(d), lowest unused disposable first.
SceneTrack(d) ==
    /\ SceneCall
    /\ d \notin scene.tracked
    /\ \A e \in Disposables : e < d => e \in scene.tracked
    /\ scene' = [Called(scene) EXCEPT !.cleanup = @ \cup {d},
                                      !.tracked = @ \cup {d}]

SceneLoads(kind, k) ==
    /\ SceneCall
    /\ Request(kind, k)
    /\ scene' = Called(scene)

ScenePlaysMusic(music) ==
    /\ SceneCall
    /\ MixPlayMusic(music)
    /\ scene' = Called(scene)

ScenePlaysSfx(sfx, stop) ==
    /\ SceneCall
    /\ MixPlaySfx(sfx, stop, FALSE)
    /\ scene' = Called(scene)

shutdown ==
    /\ ~scene.shut
    /\ mix' = stopSfx(stopMusic(mix))
    /\ scene' = [scene EXCEPT !.disposed = @ \cup scene.cleanup,
                              !.cleanup = {},
                              !.shut = TRUE]
    /\ UnloadKeys({x \in Keys : loadedTypeByKey[x] # NoEntry})
    /\ lastCall' = Call("unloadAll", "", "done")
    /\ UNCHANGED <<pendingLoad, loadList, loading, fileListeners, loadWaiting,
                   loadYielding, loaderOps, issued, queuedSinceDrain, audioList>>

\* --------------------- BaseGame, progress listeners (src/game/BaseGame.ts)
\* The 'progress' listeners on an activity's load queue and the notifications
\* the queue emits while it runs.  updateProgress is reached through the
\* listener of startActivity (attached as long as its 'loaded' handler) and
\* through the listeners of runLoader.
MaxProgress == 2

VARIABLES
    prog     \* runLoader listeners attached; per runLoader call, notifications
             \* emitted since the call and those that reached updateProgress

progVars == <<prog>>

ProgressInit ==
    prog = [listeners |-> {},
            emitted |-> [k \in RunLoaders |-> 0],
            forwarded |-> [k \in RunLoaders |-> 0],
            count |-> 0]

\* load.on('progress', progress) ... load.off('progress', progress), both
\* within the call.
RunLoaderListens(k) ==
    /\ RunLoader(k)
    /\ prog' = [prog EXCEPT !.listeners = (@ \cup {k}) \ {k}]

\* The running load queue of s emits 'progress'.
EngineProgress(s) ==
    /\ s \in scenes
    /\ sc[s].queue = "running"
    /\ prog.count < MaxProgress
    /\ LET waiting == {k \in RunLoaders :
                          rl[k].used /\ rl[k].scene = s /\ ~rl[k].complete}
           heard == sc[s].listener
                    \/ \E j \in prog.listeners : rl[j].scene = s
       IN prog' = [prog EXCEPT
              !.count = @ + 1,
              !.emitted = [k \in RunLoaders |->
                              IF k \in waiting THEN @[k] + 1 ELSE @[k]],
              !.forwarded = [k \in RunLoaders |->
                                IF k \in waiting /\ heard THEN @[k] + 1 ELSE @[k]]]
    /\ UNCHANGED vars

\* ---------------------------------------------------------- specifications
\* Each specification runs one part of the library and leaves the others as
\* they were constructed.
otherVars == <<loaderVars, voVars, sfxVars, mixVars, rzVars, sceneVars, progVars>>
notLoader == <<vars, voVars, sfxVars, mixVars, rzVars, sceneVars, progVars>>
notVo == <<vars, loaderVars, sfxVars, mixVars, rzVars, sceneVars, progVars>>
notSfx == <<vars, loaderVars, voVars, mixVars, rzVars, sceneVars, progVars>>
notMix == <<vars, loaderVars, voVars, sfxVars, rzVars, sceneVars, progVars>>
notResize == <<vars, loaderVars, voVars, sfxVars, mixVars, sceneVars, progVars>>
notScene == <<vars, loaderVars, voVars, sfxVars, mixVars, rzVars, progVars>>

Next ==
    \/ \E id \in TargetIds : GoToActivity(id) /\ UNCHANGED otherVars
    \/ ExitActivity /\ UNCHANGED otherVars
    \/ \E r \in Calls : TeardownShown(r) /\ UNCHANGED otherVars
    \/ \E r \in Calls : TeardownAsyncShutdownDone(r) /\ UNCHANGED otherVars
    \/ \E r \in Calls : StartActivity(r) /\ UNCHANGED otherVars
    \/ \E r \in Calls : InitializeResolved(r) /\ UNCHANGED otherVars
    \/ \E s \in Calls : EnginePreload(s) /\ UNCHANGED otherVars
    \/ \E s \in Calls : EngineLoadComplete(s) /\ UNCHANGED otherVars
    \/ \E s \in Calls : SupplementaryLoad(s) /\ UNCHANGED otherVars
    \/ \E s \in Calls : SettleElapsed(s) /\ UNCHANGED otherVars
    \/ \E h \in hides : HideResolved(h) /\ UNCHANGED otherVars
    \/ \E k \in RunLoaders : RunLoader(k) /\ UNCHANGED otherVars
    \/ \E k \in RunLoaders : RunLoaderShown(k) /\ UNCHANGED otherVars

LoaderNext ==
    \/ \E kind \in FileKinds, k \in Keys : Request(kind, k) /\ UNCHANGED notLoader
    \/ \E k \in Keys, urls \in UrlArgs : Audio(k, urls) /\ UNCHANGED notLoader
    \/ \E k \in Keys : Unload(k) /\ UNCHANGED notLoader
    \/ UnloadAll /\ UNCHANGED notLoader
    \/ Load /\ UNCHANGED notLoader
    \/ EngineStart /\ UNCHANGED notLoader
    \/ \E f \in Files : FileComplete(f) /\ UNCHANGED notLoader
    \/ \E f \in Files : FileFail(f) /\ UNCHANGED notLoader
    \/ BatchComplete /\ UNCHANGED notLoader
    \/ LoadResolved /\ UNCHANGED notLoader

PreloadNext ==
    \/ \E list \in DescLists \cup {audioList}, kws \in KeywordLists :
           PreloadAudioList(list, kws) /\ UNCHANGED notLoader
    \/ EngineStart /\ UNCHANGED notLoader
    \/ \E f \in Files : FileComplete(f) /\ UNCHANGED notLoader
    \/ \E f \in Files : FileFail(f) /\ UNCHANGED notLoader
    \/ BatchComplete /\ UNCHANGED notLoader

VoNext ==
    \/ \E audio \in Clips : VoPlaySingleVOClip(audio) /\ UNCHANGED notVo
    \/ \E audio \in ClipLists \cup {<<>>} : VoDoDialogue(audio) /\ UNCHANGED notVo
    \/ VoStopAllVOClips /\ UNCHANGED notVo
    \/ \E list \in ClipLists : VoPlayVOClips(list) /\ UNCHANGED notVo
    \/ \E pause \in BOOLEAN : VoSetVOPaused(pause) /\ UNCHANGED notVo
    \/ \E muted \in BOOLEAN : VoSetVOMute(muted) /\ UNCHANGED notVo
    \/ \E c \in Clips : VoComplete(c) /\ UNCHANGED notVo

SfxNext ==
    \/ \E sfx \in SfxClips, stop, loop \in BOOLEAN :
           PlaySfx(sfx, stop, loop) /\ UNCHANGED notSfx
    \/ \E name \in SoundNames : ScenePlaySfx(name) /\ UNCHANGED notSfx
    \/ StopSfx /\ UNCHANGED notSfx
    \/ \E muted \in BOOLEAN : SetSfxMute(muted) /\ UNCHANGED notSfx
    \/ \E c \in SfxClips : SfxComplete(c) /\ UNCHANGED notSfx

MixNext ==
    \/ \E muted \in BOOLEAN : MixSetAllMute(muted) /\ UNCHANGED notMix
    \/ \E muted \in BOOLEAN : MixSetMusicMute(muted) /\ UNCHANGED notMix
    \/ \E muted \in BOOLEAN : MixSetSfxMute(muted) /\ UNCHANGED notMix
    \/ \E muted \in BOOLEAN : MixSetVOMute(muted) /\ UNCHANGED notMix
    \/ \E music \in MusicSounds : MixPlayMusic(music) /\ UNCHANGED notMix
    \/ \E sfx \in SfxSounds, stop, loop \in BOOLEAN :
           MixPlaySfx(sfx, stop, loop) /\ UNCHANGED notMix
    \/ \E audio \in VoSounds : MixPlaySingleVOClip(audio) /\ UNCHANGED notMix

ResizeNext ==
    \/ ResizeSignal /\ UNCHANGED notResize
    \/ \E t \in rz.timers : ResizeTimerFires(t) /\ UNCHANGED notResize
    \/ ResizeTick /\ UNCHANGED notResize

notSceneMix == <<vars, loaderVars, voVars, sfxVars, rzVars, progVars>>
notSceneLoader == <<vars, voVars, sfxVars, mixVars, rzVars, progVars>>
notSceneMixLoader == <<vars, voVars, sfxVars, rzVars, progVars>>
notProgress == <<vars, loaderVars, voVars, sfxVars, mixVars, rzVars, sceneVars>>

SceneNext ==
    \/ \E d \in Disposables : SceneTrack(d) /\ UNCHANGED notScene
    \/ \E kind \in FileKinds, k \in Keys :
           SceneLoads(kind, k) /\ UNCHANGED notSceneLoader
    \/ \E music \in MusicSounds : ScenePlaysMusic(music) /\ UNCHANGED notSceneMix
    \/ \E sfx \in SfxSounds, stop \in BOOLEAN :
           ScenePlaysSfx(sfx, stop) /\ UNCHANGED notSceneMix
    \/ ~scene.shut /\ EngineStart /\ UNCHANGED notLoader
    \/ \E f \in Files : ~scene.shut /\ FileComplete(f) /\ UNCHANGED notLoader
    \/ ~scene.shut /\ BatchComplete /\ UNCHANGED notLoader
    \/ shutdown /\ UNCHANGED notSceneMixLoader

notGameProgress == <<loaderVars, voVars, sfxVars, mixVars, rzVars, sceneVars>>

ProgressNext ==
    \/ \E id \in TargetIds : GoToActivity(id) /\ UNCHANGED otherVars
    \/ ExitActivity /\ UNCHANGED otherVars
    \/ \E r \in Calls : TeardownShown(r) /\ UNCHANGED otherVars
    \/ \E r \in Calls : TeardownAsyncShutdownDone(r) /\ UNCHANGED otherVars
    \/ \E r \in Calls : StartActivity(r) /\ UNCHANGED otherVars
    \/ \E r \in Calls : InitializeResolved(r) /\ UNCHANGED otherVars
    \/ \E s \in Calls : EnginePreload(s) /\ UNCHANGED otherVars
    \/ \E s \in Calls : EngineLoadComplete(s) /\ UNCHANGED otherVars
    \/ \E s \in Calls : SupplementaryLoad(s) /\ UNCHANGED otherVars
    \/ \E s \in Calls : SettleElapsed(s) /\ UNCHANGED otherVars
    \/ \E h \in hides : HideResolved(h) /\ UNCHANGED otherVars
    \/ \E k \in RunLoaders : RunLoaderListens(k) /\ UNCHANGED notGameProgress
    \/ \E k \in RunLoaders : RunLoaderShown(k) /\ UNCHANGED otherVars
    \/ \E s \in Calls : EngineProgress(s) /\ UNCHANGED notGameProgress

allVars == <<vars, loaderVars, voVars, sfxVars, mixVars, rzVars, sceneVars, progVars>>
InitAll == Init /\ LoaderInit /\ VoInit /\ SfxInit /\ MixInit /\ ResizeInit /\ SceneInit /\ ProgressInit
Spec == InitAll /\ [][Next]_allVars
LoaderSpec == InitAll /\ [][LoaderNext]_allVars
PreloadSpec == InitAll /\ [][PreloadNext]_allVars
VoSpec == InitAll /\ [][VoNext]_allVars
SfxSpec == InitAll /\ [][SfxNext]_allVars
MixSpec == InitAll /\ [][MixNext]_allVars
ResizeSpec == InitAll /\ [][ResizeNext]_allVars
SceneSpec == InitAll /\ [][SceneNext]_allVars
ProgressSpec == InitAll /\ [][ProgressNext]_allVars

\* ------------------------------------------------------------------ claims
InFlightPcs == {"showLoader", "asyncShutdown", "loadAndStart", "initialize"}
InFlight(r) == req[r].pc \in InFlightPcs
Log(s) == sc[s].log
\* Active: readiness signalled, loading UI hidden, start() called.
Active(s) == Happened(Log(s), "start")

\* C1: a goToActivity or exitActivity call made while the guard is true changes
\* no orchestrator state (no teardown, no loader, no scene); it is recorded as
\* dropped and a dropped call never runs later; at most one accepted request is
\* in flight at any time.
C1_GuardedCallIsNoOp ==
    /\ [](Cardinality({r \in Calls : InFlight(r)}) <= 1)
    /\ [][/\ (calls' # calls /\ navigating) =>
                /\ UNCHANGED gameVars
                /\ req'[calls'].pc = "dropped"
                /\ \A r \in Calls \ {calls'} : req'[r] = req[r]
          /\ \A r \in Calls : req[r].pc = "dropped" => req'[r] = req[r]]_vars

\* A call was dropped while an accepted request was still in flight.
C1_Witness ==
    \E r, q \in Calls : req[r].pc = "dropped" /\ InFlight(q)

\* C2 (as claimed): while the current activity is not yet Active the guard is
\* true.
C2_GuardHeldUntilActive ==
    \A s \in Calls : (currentActivity = s /\ ~Active(s)) => navigating

\* C3 (as claimed): once exitActivity's teardown has completed there is no
\* current activity and the guard is clear.
C3_IdleAfterExit ==
    \A r \in Calls :
        req[r].pc = "exited" => (currentActivity = NoActivity /\ ~navigating)

\* C4: once goToActivity has taken the unknown-id branch the guard is true in
\* every later state, and every later goToActivity / exitActivity is dropped.
C4_GuardStuckAfterUnknownId ==
    /\ []((\E r \in Calls : req[r].pc = "abandoned") => navigating)
    /\ [][((\E r \in Calls : req[r].pc = "abandoned") /\ calls' # calls) =>
              (req'[calls'].pc = "dropped" /\ UNCHANGED gameVars)]_vars

\* A call issued after an abandoned request was dropped.
C4_Witness ==
    \E r, q \in Calls : r < q /\ req[r].pc = "abandoned" /\ req[q].pc = "dropped"

TeardownOver(r) == req[r].kind # "none" /\ req[r].pc \notin {"dropped", "showLoader", "asyncShutdown", "crashed"}

\* C5: a goToActivity whose id has no static configuration, once its teardown
\* is over, has logged the id and returned: no activity is current, no scene is
\* in the engine, none was constructed for the request, and its teardown log
\* is complete.
C5_UnknownIdAbandonedAfterTeardown ==
    \A r \in Calls :
        (req[r].kind = "goto" /\ req[r].id \notin KnownIds /\ TeardownOver(r)) =>
            /\ req[r].pc = "abandoned"
            /\ req[r].id \in errors
            /\ currentActivity = NoActivity
            /\ scenes = {}
            /\ Log(r) = <<>>
            /\ SubSeq(tdLog[r], Len(tdLog[r]) - 2, Len(tdLog[r])) = ResetInput

\* An unknown-id request was abandoned after it tore down a live activity.
C5_Witness ==
    \E r \in Calls :
        /\ req[r].pc = "abandoned"
        /\ Happened(tdLog[r], "destroy")

TeardownWithActivity ==
    <<"guard", "showLoader", "shown", "asyncShutdown", "asyncShutdownDone",
      "shutdown", "destroy", "clearCurrent", "reset", "setBaseline",
      "clearContexts", "construct">>

TeardownWithoutActivity ==
    <<"guard", "showLoader", "shown", "reset", "setBaseline", "clearContexts",
      "construct">>

\* C6: every request executes the teardown steps in the fixed order (guard,
\* show loader, shown, asyncShutdown, its completion, shutdown, destroy, clear
\* the reference, reset, empty baseline, clear contexts), and the next
\* activity is constructed only after all of them.
C6_TeardownOrder ==
    \A r \in Calls :
        /\ \/ IsPrefix(tdLog[r], TeardownWithActivity)
           \/ IsPrefix(tdLog[r], TeardownWithoutActivity)
        /\ Log(r) # <<>> => Happened(tdLog[r], "clearContexts")
        /\ r \in scenes => Happened(tdLog[r], "clearContexts")

\* A request tore down a live activity and then constructed its own.
C6_Witness ==
    \E r \in Calls : tdLog[r] = TeardownWithActivity

\* C7: at most one activity scene is live, and the current-activity reference
\* is null or is that scene.
C7_OneLiveActivity ==
    /\ Cardinality(scenes) <= 1
    /\ currentActivity = NoActivity \/ scenes = {currentActivity}

\* A second activity is live after the first was destroyed.
C7_Witness ==
    \E s, q \in Calls :
        s # q /\ scenes = {s} /\ currentActivity = s /\ Happened(Log(q), "destroy")

\* C8: per activity, initialize resolves before preload and create; 'loaded'
\* fires after create and the settle delay; hideLoader is requested after
\* 'loaded'; start() is called after the hide resolved, at most once.
C8_LifecycleOrder ==
    \A s \in Calls :
        /\ Follows(Log(s), "initialized", "preload")
        /\ Follows(Log(s), "preload", "create")
        /\ Follows(Log(s), "create", "settled")
        /\ Follows(Log(s), "settled", "loaded")
        /\ Follows(Log(s), "loaded", "hideLoader")
        /\ Follows(Log(s), "hideLoader", "hidden")
        /\ Follows(Log(s), "hidden", "start")
        /\ Count(Log(s), "start") <= 1

\* An activity went through its whole lifecycle up to start().
C8_Witness ==
    \E s \in Calls : Active(s)

\* C9 (as claimed): whenever the loading UI is visible, interaction is off.
C9_NoInteractionWhileLoaderVisible ==
    loaderVisible => ~interactionEnabled

\* C10 (as claimed): runLoader's `loaded` is resolved exactly when the queue
\* of the activity has completed.
C10_LoadedWhenQueueFinishes ==
    \A k \in RunLoaders : rl[k].used => (rl[k].loaded <=> rl[k].complete)

\* C10 (amended): `loaded` is resolved exactly when the queue has completed
\* and the loading UI is fully shown; `visible` resolves only after the
\* loader was shown, the queue completed, hideLoader was then requested and its
\* hide confirmed.
C10_LoadedWhenShownAndQueueFinishes ==
    \A k \in RunLoaders :
        /\ rl[k].loaded <=> (rl[k].complete /\ rl[k].shown)
        /\ rl[k].loaded <=> Happened(rl[k].log, "loaded")
        /\ rl[k].visible <=> Happened(rl[k].log, "visible")
        /\ Follows(rl[k].log, "shown", "loaded")
        /\ Follows(rl[k].log, "complete", "loaded")
        /\ Follows(rl[k].log, "loaded", "hideLoader")
        /\ Follows(rl[k].log, "hideLoader", "hidden")
        /\ Follows(rl[k].log, "hidden", "visible")

\* A runLoader whose queue completed before the loader was shown, resolved.
C10_Witness ==
    \E k \in RunLoaders :
        /\ rl[k].visible
        /\ Pos(rl[k].log, "complete") < Pos(rl[k].log, "shown")


\* ------------------------------------------------- claims on ManagedLoader
\* A public call of the loader has just been made in this step.
LoaderCalled(op) == loaderOps' = loaderOps + 1 /\ lastCall'.op = op

\* C11 (as stated): for every asset kind, load requests for one key with no
\* unload between them put exactly one fetch on the engine loader, whether the
\* first request has completed or is still pending.
C11_OneFetchPerKey == \A f \in Files : fetches[f] <= 1

\* C12 (as stated): after unloadAll(), and until the next call on the loader,
\* the load-entry table is empty and no engine cache holds a key, or a
\* sub-resource of a key, that this loader issued.
C12_NothingLeftAfterUnloadAll ==
    lastCall.op = "unloadAll" =>
        /\ \A k \in Keys : loadedTypeByKey[k] = NoEntry
        /\ \A e \in cache : e.key \notin issued

\* C13 (as stated): the pending flag is true exactly when a fetch has been
\* queued since the engine's batch last drained, whoever started that batch.
C13_PendingExactlyWhenQueued == pendingLoad <=> queuedSinceDrain

\* C13 (amended): the pending flag is true whenever a fetch has been queued
\* since the batch last drained; it is cleared only by the 'complete' listener
\* of a waiting load(), and that listener always clears it.  load() with the
\* flag false resolves at once and starts no batch; with the flag true it
\* waits, and a waiting future comes to its scheduling yield only in the step
\* in which the batch completes.
C13_PendingWhenQueued ==
    /\ [](queuedSinceDrain => pendingLoad)
    /\ [][/\ (pendingLoad /\ ~pendingLoad') =>
                 (loading /\ ~loading' /\ loadWaiting > 0)
          /\ (loading /\ ~loading' /\ loadWaiting > 0) => ~pendingLoad'
          /\ (LoaderCalled("load") /\ ~pendingLoad) =>
                 /\ lastCall'.out = "resolved"
                 /\ UNCHANGED <<loading, loadWaiting, loadYielding>>
          /\ (LoaderCalled("load") /\ pendingLoad) =>
                 /\ lastCall'.out = "waiting"
                 /\ loading'
                 /\ loadWaiting' = loadWaiting + 1
          /\ loadYielding' > loadYielding =>
                 /\ loading /\ ~loading'
                 /\ loadYielding' = loadYielding + loadWaiting
                 /\ loadWaiting' = 0]_loaderVars

\* The engine's own batch has drained what was queued while no load() was
\* waiting; the flag stayed set, so the next load() waits with nothing queued.
C13_Witness ==
    /\ pendingLoad
    /\ ~queuedSinceDrain
    /\ loadList = {}
    /\ lastCall.op = "load"
    /\ lastCall.out = "waiting"
    /\ loadWaiting = 1

\* C14: audio() for a key the audio cache does not hold, called without urls,
\* is rejected at once and changes nothing: no fetch, no load entry, no
\* listener, and the pending flag keeps its value.
C14_AudioWithoutUrlsRejected ==
    [][(/\ LoaderCalled("audio")
        /\ lastCall'.urls = "absent"
        /\ Entry("audio", lastCall'.key) \notin cache) =>
           /\ lastCall'.out = "rejected"
           /\ UNCHANGED <<loadedTypeByKey, pendingLoad, loadList, loading,
                          cache, fileListeners, fetches, issued>>]_loaderVars

\* A rejected audio() that found the flag down and left it down.
C14_Witness ==
    /\ lastCall.op = "audio"
    /\ lastCall.out = "rejected"
    /\ ~pendingLoad
    /\ loadedTypeByKey[lastCall.key] = NoEntry
    /\ fetches[<<"audio", lastCall.key>>] = 0

\* C15: the descriptor as preloadAudioList found it in this step.
C15_Before(i) ==
    IF audioList = <<>> THEN [audioList'[i] EXCEPT !.audioObj = FALSE]
    ELSE audioList[i]

\* C15: the three conditions of the claim.
C15_Wanted(d, kws) ==
    /\ \A j \in 1 .. Len(kws) : IndexOf(Text(d.id), Text(kws[j])) = -1
    /\ d.audio = "list"
    /\ ~d.audioObj

\* C15: preloadAudioList calls audio() for exactly the descriptors whose id
\* contains no exclusion keyword, whose audio field is a list and which hold no
\* handle yet: each of them gets a fetch (or, its key being cached, its handle
\* at once); every other descriptor is left as it was, gets no fetch and no
\* load entry; and a handle that resolves later is stored on its descriptor.
C15_PreloadAudioListFilters ==
    [][/\ LoaderCalled("preloadAudioList") =>
            LET kws == lastCall'.kws
                wanted == {i \in DOMAIN audioList' :
                               C15_Wanted(C15_Before(i), kws)}
                fetched == {i \in wanted :
                               Entry("audio", audioList'[i].id) \notin cache}
            IN /\ \A i \in fetched :
                      /\ [key |-> audioList'[i].id, d |-> i] \in fileListeners'
                      /\ <<"audio", audioList'[i].id>> \in loadList'
                      /\ loadedTypeByKey'[audioList'[i].id] = "audio"
               /\ \A i \in wanted \ fetched : audioList'[i].audioObj
               /\ \A i \in DOMAIN audioList' \ wanted :
                      /\ audioList'[i] = C15_Before(i)
                      /\ [key |-> audioList'[i].id, d |-> i]
                             \in fileListeners' \ fileListeners => FALSE
               /\ \A k \in Keys :
                      /\ fetches'[<<"audio", k>>] = fetches[<<"audio", k>>]
                           + Cardinality({i \in fetched : audioList'[i].id = k})
                      /\ loadedTypeByKey'[k] # loadedTypeByKey[k] =>
                             \E i \in fetched : audioList'[i].id = k
       /\ \A l \in fileListeners \ fileListeners' :
              (l.d # 0 /\ Entry("sound", l.key) \in cache') =>
                  audioList'[l.d].audioObj]_loaderVars

\* The claim's example: of [{id a, audio [..]}, {id ab, audio null}] only a is
\* fetched and recorded.
C15_Witness ==
    /\ lastCall.op = "preloadAudioList"
    /\ audioList = <<[id |-> "a", audio |-> "list", audioObj |-> FALSE],
                     [id |-> "ab", audio |-> "absent", audioObj |-> FALSE]>>
    /\ fetches[<<"audio", "a">>] = 1
    /\ fetches[<<"audio", "ab">>] = 0
    /\ loadedTypeByKey = [k \in Keys |-> IF k = "a" THEN "audio" ELSE NoEntry]

\* -------------------------------------------------- claims on AudioManager
Futures == DOMAIN vo.futures
Loops == DOMAIN vo.loops
Playing == {c \in Clips : vo.state[c] = "playing"}

\* C16 (as stated): when playSingleVOClip(B) is called right after
\* playSingleVOClip(A), A is stopped and B is the only current voice clip; the
\* future returned for A is never resolved, and B's future is resolved only by
\* the completion of the play that made it.
C16_ReplacedClipNeverResolves ==
    /\ \A n \in Futures :
           vo.futures[n].replaced => vo.futures[n].resolvedBy = NoFuture
    /\ \A n \in Futures :
           (/\ n = vo.justReturned
            /\ n > 1
            /\ vo.futures[n - 1].replaced) =>
               /\ vo.state[vo.futures[n - 1].clip] = "stopped"
               /\ vo.currentVOClip = vo.futures[n].clip
               /\ Playing = {vo.futures[n].clip}
               /\ vo.futures[n].resolvedBy = NoFuture

\* C17: whatever calls are made and whichever clips complete, at most one
\* voice clip is playing.
C17_OneVoiceClipPlaying == Cardinality(Playing) <= 1

\* B plays after it took over from A, whose future is still unresolved.
C17_Witness ==
    /\ vo.state["B"] = "playing"
    /\ vo.state["A"] = "stopped"
    /\ vo.play["A"] # NoFuture
    /\ vo.futures[vo.play["A"]].resolvedBy = NoFuture

\* C18 (as stated): a completion listener is attached only to the current
\* voice clip and at most one per clip, and a future is resolved only by the
\* completion of the play that made it.
C18_ListenerOnlyOnCurrentClip ==
    /\ \A c \in Clips :
           /\ Len(vo.onComplete[c]) <= 1
           /\ vo.onComplete[c] # <<>> => c = vo.currentVOClip
    /\ \A n \in Futures : vo.futures[n].resolvedBy \in {NoFuture, n}

\* C19 (as stated): playVOClips starts its entries in list order, one at a
\* time, and a list that stopAllVOClips, playSingleVOClip or another
\* playVOClips cut into never starts another entry.
C19_InterruptedListNeverResumes ==
    \A l \in Loops :
        /\ IsPrefix(vo.loops[l].started, vo.loops[l].list)
        /\ Cardinality({n \in Futures : /\ vo.futures[n].loop = l
                                        /\ vo.futures[n].resolvedBy = NoFuture}) <= 1
        /\ ~vo.loops[l].resumed

\* C20: with the sfx channel muted, playSfx of a clip that does not loop stops
\* every clip of the active set, leaves the set empty and does not start the
\* new clip, however many clips were active.
C20_MutedPlaySfxStopsAll ==
    [][(/\ sfxOps' = sfxOps + 1
        /\ sfxCall'.op = "playSfx"
        /\ sfxMuted
        /\ ~sfxCall'.loop) =>
           /\ sfxClips' = {}
           /\ \A c \in sfxClips : sfxState'[c] = "stopped" /\ ~sfxListeners'[c]
           /\ sfxState'[sfxCall'.clip] \notin {"playing", "looping"}
           /\ sfxCall'.clip \notin sfxClips =>
                  sfxState'[sfxCall'.clip] = sfxState[sfxCall'.clip]]_sfxVars

\* The claim's example: three clips were active when the muted channel was
\* asked to play a fourth.
C20_Witness ==
    /\ sfxCall.op = "playSfx"
    /\ sfxCall.muted
    /\ ~sfxCall.loop
    /\ Cardinality(sfxCall.found) = MaxSfxClips - 1
    /\ sfxCall.clip \notin sfxCall.found
    /\ sfxClips = {}

\* ---------------------------------------------- claims on late handlers
InTeardown(r) == req[r].pc \in {"showLoader", "asyncShutdown"}

\* C25 (as stated): the 'loaded' handler of an earlier activity never asks to
\* hide the loading UI while a newer transition is tearing down, and start()
\* is never called on an activity whose shutdown() has run.
C25_StartOnlyOnLiveActivity ==
    /\ \A s \in Calls :
           (Happened(Log(s), "start") /\ Happened(Log(s), "shutdown")) =>
               Pos(Log(s), "start") < Pos(Log(s), "shutdown")
    /\ \A s \in Calls : \A r \in Calls :
           (r # s /\ InTeardown(r)) => SceneHide(s) \notin hides

\* ----------------------------------------------- claims on the mute state
\* C21: after any sequence of setAllMute, setMusicMute, setSfxMute, setVOMute,
\* playMusic, playSfx and playSingleVOClip calls, every clip tracked in a
\* channel is muted exactly when that channel's flag or the global flag is
\* set, whether it was started before or after the flags last changed.
C21_TrackedClipsFollowFlags ==
    /\ \A c \in Range(mix.musicClips) :
           mix.mute[c] = (mix.musicMuted \/ mix.allMuted)
    /\ \A c \in mix.sfxClips : mix.mute[c] = (mix.sfxMuted \/ mix.allMuted)
    /\ mix.currentVOClip # NoClip =>
           mix.mute[mix.currentVOClip] = (mix.voMuted \/ mix.allMuted)

\* All three channels track a clip that was started unmuted; the global flag
\* was set afterwards and every one of them is muted by it alone.
C21_Witness ==
    /\ mix.allMuted
    /\ ~mix.musicMuted /\ ~mix.sfxMuted /\ ~mix.voMuted
    /\ mix.musicClips # <<>>
    /\ mix.sfxClips # {}
    /\ mix.currentVOClip # NoClip
    /\ \A c \in Range(mix.musicClips) \cup mix.sfxClips \cup {mix.currentVOClip} :
           mix.mute[c]

\* ------------------------------------------- claims on the resize debounce
\* C22: resize signals are debounced.  At most one debounce timer is pending,
\* and it is the one the last signal scheduled; no layout recompute happens
\* between two signals of a burst (each within the window of the previous);
\* and the last signal is followed by exactly one recompute, not before its
\* window has elapsed.
C22_ResizeDebounced ==
    /\ Cardinality(rz.timers) <= 1
    /\ \A t \in rz.timers :
           /\ t.id = rz.resizeTimer
           /\ t.due = rz.lastSignal + ResizeDelay
    /\ rz.midBurst = 0
    /\ rz.signalled =>
           /\ rz.sinceSignal = (IF rz.timers = {} THEN 1 ELSE 0)
           /\ rz.sinceSignal = 1 => rz.now >= rz.lastSignal + ResizeDelay

\* A burst of three signals, each within the window of the previous, has
\* been followed by its one recompute.
C22_Witness ==
    /\ rz.burst = MaxSignals
    /\ rz.timers = {}
    /\ rz.layouts = 1

\* ------------------------------------------------------ claims on shutdown
\* C23 (as stated): when an activity's shutdown() has returned, the music list
\* and the active-sfx set are empty and every clip that was in them is
\* stopped, every disposable the activity tracked is disposed, the loader's
\* load-entry table is empty, and every asset the loader ever loaded is
\* unloaded.
C23_ShutdownLeavesNothing ==
    scene.shut =>
        /\ mix.musicClips = <<>>
        /\ mix.sfxClips = {}
        /\ \A c \in MusicSounds \cup SfxSounds : ~mix.playing[c]
        /\ scene.cleanup = {}
        /\ scene.disposed = scene.tracked
        /\ \A k \in Keys : loadedTypeByKey[k] = NoEntry
        /\ \A e \in cache : e.key \notin issued

\* -------------------------------------------- claims on progress listeners
\* C24 (as stated): the progress listener runLoader attaches forwards every
\* progress notification the current activity's load queue emits between the
\* runLoader call and the queue's completion to updateProgress, and it is
\* detached once the queue has completed.
C24_ProgressForwarded ==
    /\ \A k \in RunLoaders : prog.forwarded[k] = prog.emitted[k]
    /\ \A k \in prog.listeners : ~rl[k].complete

\* ------------------------------------------------ claims on audio futures
\* C26 (as stated): a future returned by audio(key, urls) settles once the
\* engine has finished processing that file: while it is still pending with
\* its listener attached, the file is still with the engine loader.
C26_AudioFutureSettles ==
    \A l \in fileListeners : <<"audio", l.key>> \in loadList

\* ------------------------------------------- claims on BaseScene's helpers
\* C27 (as stated): BaseScene.playSfx(name) hands an existing sound to
\* AudioManager.playSfx, so that with the channel unmuted it is started and
\* added to the active set; with no such sound nothing is played.
C27_ScenePlaySfxPlaysExisting ==
    [][(sfxOps' = sfxOps + 1 /\ sfxCall'.op = "scene.playSfx") =>
           IF sfxCall'.clip \in SfxClips
           THEN ~sfxMuted =>
                    /\ sfxCall'.clip \in sfxClips'
                    /\ sfxState'[sfxCall'.clip] = "playing"
                    /\ sfxListeners'[sfxCall'.clip]
           ELSE UNCHANGED <<sfxClips, sfxState, sfxListeners>>]_sfxVars

\* C28 (as stated): doDialogue over a list of n ids terminates, playing each
\* id once, in order, through playSingleVOClip: a call over a list with at
\* least one id has started the first id's clip when it returns, and its
\* future is not rejected.
C28_DialogueListPlaysAll ==
    (vo.dialogue.out # "none" /\ vo.dialogue.ids # <<>>) =>
        /\ vo.dialogue.out # "RangeError"
        /\ vo.dialogue.started # <<>>
        /\ Head(vo.dialogue.started) = Head(vo.dialogue.ids)

=============================================================================
